---- MODULE Spec2Model ----
(***************************************************************************)
(* The icon scripts of src-tauri/icons: fix_icon.py, generate_icons.py and *)
(* create_minimal_ico.py.  Each script is a run-to-completion program; the *)
(* only state that outlives a run is the directory the scripts work in.    *)
(* A behaviour is a sequence of script runs over that directory.  One      *)
(* action is one whole run of one script: what the interpreter does with   *)
(* the file, the function the script calls, and the exit code.             *)
(***************************************************************************)
EXTENDS Integers, Sequences, FiniteSets, TLC

(* Bound of the model: the script runs of a behaviour. *)
MaxRuns == 2

(* The names that are given on the command line. *)
ArgNames == {"icon.png", "other.png"}
Files == ArgNames \cup {"icon.ico"}
(* sys.argv[1:]: no argument, or one filename. *)
Argvs == {<<>>} \cup {<<f>> : f \in ArgNames}

(* Pixel layouts of a PNG file as PIL reports them in img.mode. *)
Modes == {"RGBA", "RGB", "P"}

(***************************************************************************)
(* What a name of the directory holds: nothing, a file PIL cannot open, a  *)
(* PNG image (its mode, and whether these are the bytes it first had or    *)
(* the bytes PIL's encoder wrote), or raw bytes.                           *)
(***************************************************************************)
Missing == [type |-> "missing", mode |-> "", enc |-> "", bytes |-> <<>>]
Corrupt == [type |-> "corrupt", mode |-> "", enc |-> "", bytes |-> <<>>]
Image(m, e) == [type |-> "image", mode |-> m, enc |-> e, bytes |-> <<>>]
Raw(b) == [type |-> "raw", mode |-> "", enc |-> "", bytes |-> b]

PngStates == {Missing, Corrupt} \cup {Image(m, "orig") : m \in Modes}
OtherPngStates == {Missing, Image("RGB", "orig")}
IcoStates == {Missing}

(* platform.system(), which generate_icons.py asks for at its line 61. *)
Platforms == {"Darwin", "Linux"}

(* os.path.exists *)
exists(fsv, f) == fsv[f].type # "missing"

(* ------------------------------------------------------------------ *)
(* struct.pack with a little-endian ('<') format.                       *)
(* ------------------------------------------------------------------ *)
RECURSIVE Pow256(_)
Pow256(k) == IF k = 0 THEN 1 ELSE 256 * Pow256(k - 1)

(* n as k little-endian bytes *)
LE(n, k) == [i \in 1..k |-> (n \div Pow256(i - 1)) % 256]

(* sizes: the byte width of each format character (B 1, H 2, I 4) *)
RECURSIVE Pack(_, _)
Pack(sizes, vals) ==
    IF sizes = <<>> THEN <<>>
    ELSE LE(Head(vals), Head(sizes)) \o Pack(Tail(sizes), Tail(vals))

(* bytes * n *)
Repeat(pat, n) == [i \in 1..(n * Len(pat)) |-> pat[((i - 1) % Len(pat)) + 1]]

(* ------------------------------------------------------------------ *)
(* create_minimal_ico.py                                                *)
(* ------------------------------------------------------------------ *)
width == 16
height == 16

ico_header == Pack(<<2, 2, 2>>, <<0, 1, 1>>)

pixel_data_size == width * height * 4

mask_row_size_unaligned == (width + 7) \div 8
mask_row_size == ((width + 31) \div 32) * 4

mask_size == mask_row_size * height

ico_image_size == 40 + pixel_data_size + mask_size

ico_entry ==
    Pack(<<1, 1, 1, 1, 2, 2, 4, 4>>,
         << IF width < 256 THEN width ELSE 0,
            IF height < 256 THEN height ELSE 0,
            0, 0, 1, 32, ico_image_size, 22 >>)

bmp_header ==
    Pack(<<4, 4, 4, 2, 2, 4, 4, 4, 4, 4, 4>>,
         << 40, width, height * 2, 1, 32, 0,
            pixel_data_size + mask_size, 0, 0, 0, 0 >>)

pixel_data == Repeat(<<0, 0, 255, 255>>, width * height)
and_mask == Repeat(<<0>>, mask_size)

(***************************************************************************)
(* The result of a function call: the directory after it, the lines it     *)
(* printed, what it returned ("True", "False", or "none" when it did not   *)
(* return), the exception that left it uncaught ("none" when none did),    *)
(* the files it opened for writing, those of them it wrote to the end and  *)
(* closed, and the subprocesses it started.                                *)
(***************************************************************************)
Result(fsv, out, ret, exc, written, saved) ==
    [fs |-> fsv, out |-> out, ret |-> ret, exc |-> exc,
     written |-> written, saved |-> saved, calls |-> <<>>]

(***************************************************************************)
(* What the run's surroundings do to it.                                   *)
(* The disk: "ok"; "noopen", a file cannot be opened for writing (a        *)
(* read-only directory); "nowrite", a file opens, which empties it, and    *)
(* none of the bytes written to it can be stored; "partial", a file opens  *)
(* and the first PartialBytes bytes written to it are stored, the rest not *)
(* (a file size limit, a disk that fills up).                              *)
(* The standard output: whether its encoding has U+2713 (UTF-8 has,        *)
(* latin-1 and cp1252 have not), and where the bytes go: "ok"; "lost", a   *)
(* buffered stream on a full device or a pipe without reader, where print  *)
(* succeeds and the flush at exit fails; "raises", the same unbuffered     *)
(* (python3 -u, PYTHONUNBUFFERED), where every print raises OSError;       *)
(* "hungup", a terminal open when the interpreter starts and gone when the *)
(* script prints (session closed): the stream is line-buffered, print puts *)
(* the line in the buffer and raises OSError writing it out, and the line, *)
(* still buffered, makes the flush at exit fail too; "closed", no standard *)
(* output at all (>&-): sys.stdout is None, print writes nothing, encodes  *)
(* nothing and raises nothing.                                             *)
(***************************************************************************)
PartialBytes == 100
Disks == {"ok", "noopen", "nowrite", "partial"}
Sinks == {"ok", "lost", "raises", "hungup", "closed"}
Stdouts == [enc : BOOLEAN, sink : Sinks]

(* A standard output that takes every line. *)
Terminal == [enc |-> TRUE, sink |-> "ok"]

(* The check mark, U+2713, that starts the success lines of fix_icon.py. *)
CheckMark == "[U+2713] "

(* Whether print raises OSError on this standard output. *)
PrintRaises(stdout) == stdout.sink \in {"raises", "hungup"}

(* The lines of a print that raised which stay in the buffer of the
   standard output: all on a line-buffered stream, none on an unbuffered. *)
Buffered(out, stdout) == IF stdout.sink = "hungup" THEN out ELSE <<>>

(* What the standard output does to the line of a call that prints under no
   try: line 72 of create_minimal_ico, lines 29 and 32 of convert_to_rgba,
   which are in the handlers.  Closed, it takes no line and the call goes
   on.  When print raises OSError the exception leaves the function, which
   returns nothing. *)
Printed(r, stdout) ==
    IF stdout.sink = "closed"
    THEN [r EXCEPT !.out = <<>>]
    ELSE IF PrintRaises(stdout) /\ r.out # <<>>
    THEN [r EXCEPT !.out = Buffered(r.out, stdout), !.ret = "none",
                   !.exc = "OSError"]
    ELSE r

(* The same for a print inside the try of line 11 (lines 15, 22, 25): the
   OSError it raises is caught at line 31, and line 32 prints in its turn. *)
PrintedInTry(r, fname, stdout) ==
    IF PrintRaises(stdout) /\ r.out # <<>>
    THEN Printed([r EXCEPT !.out = Buffered(r.out, stdout)
                               \o <<"Error processing " \o fname
                                     \o ": Input/output error">>,
                           !.ret = "False"],
                 stdout)
    ELSE Printed(r, stdout)

(* The bytes written to icon.ico, lines 65 to 70. *)
ico_file == ico_header \o ico_entry \o bmp_header \o pixel_data \o and_mask

(* open('icon.ico', 'wb') raises OSError when the file cannot be opened.
   Opened, the file is empty; the bytes written are stored up to the point
   the disk refuses them, and OSError is raised.  Nothing in
   create_minimal_ico catches either, and the print of line 72 is not
   reached.  With the file complete, line 72 prints. *)
create_minimal_ico(fsv, disk, stdout) ==
    IF disk = "noopen"
    THEN Result(fsv, <<>>, "none", "OSError", <<>>, <<>>)
    ELSE IF disk = "nowrite"
    THEN Result([fsv EXCEPT !["icon.ico"] = Raw(<<>>)], <<>>, "none",
                "OSError", <<"icon.ico">>, <<>>)
    ELSE IF disk = "partial"
    THEN Result([fsv EXCEPT !["icon.ico"] =
                     Raw(SubSeq(ico_file, 1, PartialBytes))],
                <<>>, "none", "OSError", <<"icon.ico">>, <<>>)
    ELSE Printed(Result([fsv EXCEPT !["icon.ico"] = Raw(ico_file)],
                        <<"Created minimal icon.ico">>, "True", "none",
                        <<"icon.ico">>, <<"icon.ico">>),
                 stdout)

(* ------------------------------------------------------------------ *)
(* fix_icon.py                                                          *)
(* ------------------------------------------------------------------ *)
(* img.mode != 'RGBA' *)
NeedsConversion_always(img) == TRUE
NeedsConversion(img) == img.mode # "RGBA"

(* img.convert(mode), then save(): the encoder writes the bytes anew *)
convert(img, m) == Image(m, "pil")

(* print(line) inside the try of line 11: a line with the check mark raises
   UnicodeEncodeError on an open standard output that cannot encode it,
   before any of it is buffered, which the "except Exception" of line 31
   catches: the function prints its error line and returns False, whatever
   it had done before. *)
Report(fsv, fname, line, written, stdout) ==
    IF ~stdout.enc /\ stdout.sink # "closed"
    THEN Printed(Result(fsv, <<"Error processing " \o fname
                               \o ": codec can't encode character U+2713">>,
                        "False", "none", written, written),
                 stdout)
    ELSE PrintedInTry(Result(fsv, <<CheckMark \o line>>, "True", "none",
                             written, written),
                      fname, stdout)

(* rgba_img.save(filename): PIL opens the file "w+b", which empties it, and
   then encodes into it.  A PNG cut after PartialBytes bytes still has its
   header, which is all Image.open reads: it opens, as an RGBA image. *)
convert_to_rgba(fsv, fname, pil, disk, stdout) ==
    IF ~pil
    THEN Printed(Result(fsv,
                        <<"PIL not available. Install with: pip install Pillow">>,
                        "False", "none", <<>>, <<>>),
                 stdout)
    ELSE IF ~exists(fsv, fname)
    THEN PrintedInTry(Result(fsv, <<"Error: " \o fname \o " not found">>,
                             "False", "none", <<>>, <<>>),
                      fname, stdout)
    ELSE IF fsv[fname].type # "image"
    THEN Printed(Result(fsv, <<"Error processing " \o fname
                               \o ": cannot identify image file">>,
                        "False", "none", <<>>, <<>>),
                 stdout)
    ELSE IF NeedsConversion(fsv[fname])
    THEN IF disk = "noopen"
         THEN Printed(Result(fsv, <<"Error processing " \o fname
                                    \o ": Permission denied">>,
                             "False", "none", <<>>, <<>>),
                      stdout)
         ELSE IF disk = "nowrite"
         THEN Printed(Result([fsv EXCEPT ![fname] = Raw(<<>>)],
                             <<"Error processing " \o fname
                               \o ": No space left on device">>,
                             "False", "none", <<fname>>, <<>>),
                      stdout)
         ELSE IF disk = "partial"
         THEN Printed(Result([fsv EXCEPT ![fname] = Image("RGBA", "cut")],
                             <<"Error processing " \o fname
                               \o ": File too large">>,
                             "False", "none", <<fname>>, <<>>),
                      stdout)
         ELSE Report([fsv EXCEPT ![fname] = convert(fsv[fname], "RGBA")],
                     fname,
                     "Converted " \o fname \o " from " \o fsv[fname].mode
                         \o " to RGBA",
                     <<fname>>, stdout)
    ELSE Report(fsv, fname, fname \o " is already RGBA", <<>>, stdout)

(* sys.argv[1] if len(sys.argv) > 1 else 'icon.png'; argv here is sys.argv[1:] *)
filename(argv) == IF Len(argv) > 0 THEN argv[1] ELSE "icon.png"

(* sys.exit(0 if success else 1); success is None when the call raised, and
   then sys.exit is not reached *)
exit_always_zero(ret) == 0
exit_status(ret) == IF ret = "True" THEN 0 ELSE 1

(* ------------------------------------------------------------------ *)
(* generate_icons.py                                                    *)
(* ------------------------------------------------------------------ *)
source_icon == "icon.png"

(* The files generate_icons names for writing: the PNG sizes of lines 35 to
   38, icon.ico of line 50, the ten files of lines 84 to 93 it saves in
   icon.iconset, and icon.icns, the product of both subprocesses. *)
iconset_files ==
    {"icon.iconset/" \o n :
        n \in {"icon_16x16.png", "icon_16x16@2x.png", "icon_32x32.png",
               "icon_32x32@2x.png", "icon_128x128.png", "icon_128x128@2x.png",
               "icon_256x256.png", "icon_256x256@2x.png", "icon_512x512.png",
               "icon_512x512@2x.png"}}
generated_files ==
    {"32x32.png", "128x128.png", "128x128@2x.png", "icon.ico", "icon.icns"}
        \cup iconset_files

(***************************************************************************)
(* The interpreter compiles a whole file before it runs its first line.    *)
(* In generate_icons.py the "except Exception as e2:" of line 104 is       *)
(* indented deeper than the "try:" of line 78 it belongs to, inside that   *)
(* try's body: the file is not a Python program, and compiling it raises   *)
(* SyntaxError.  The other two files compile.                              *)
(***************************************************************************)
Compiles(script) == script # "generate_icons.py"

(* Whether what was printed reaches the standard output when the interpreter
   flushes it at exit. *)
Flushed(out, stdout) == ~(stdout.sink \in {"lost", "hungup"} /\ out # <<>>)

(* The interpreter's exit code: 120 when the standard output cannot be
   flushed at exit, whatever the script asked for and however it ended; else
   1 for an uncaught
   exception (SyntaxError included), the argument of sys.exit, 0 when the
   script runs off its end. *)
InterpreterExit(exc, code, out, stdout) ==
    IF ~Flushed(out, stdout) THEN 120
    ELSE IF exc # "none" THEN 1 ELSE code

VARIABLES
    fs,         \* the directory: what each name holds
    pil,        \* whether "from PIL import Image" succeeds
    runs,       \* script runs so far
    last,       \* the most recent run: its inputs and what it did
    prev        \* the run before it

vars == <<fs, pil, runs, last, prev>>

(* Before the first run. *)
NoRun ==
    [script |-> "none", argv |-> <<>>, platform |-> "", fsBefore |-> fs,
     out |-> <<>>, flushed |-> TRUE, ret |-> "none", exc |-> "none",
     exit |-> 0, written |-> <<>>, saved |-> <<>>, calls |-> <<>>]

Summary(r) == [script |-> r.script, argv |-> r.argv, ret |-> r.ret]

Init ==
    /\ fs \in [Files -> PngStates \cup OtherPngStates \cup IcoStates]
    /\ fs["icon.png"] \in PngStates
    /\ fs["other.png"] \in OtherPngStates
    /\ fs["icon.ico"] \in IcoStates
    /\ pil \in BOOLEAN
    /\ runs = 0
    /\ last = NoRun
    /\ prev = [script |-> "none", argv |-> <<>>, ret |-> "none"]

(* What a finished run leaves behind. *)
Finish(script, argv, stdout, plat, r, code) ==
    /\ fs' = r.fs
    /\ last' = [script |-> script, argv |-> argv, platform |-> plat,
                fsBefore |-> fs, out |-> r.out,
                flushed |-> Flushed(r.out, stdout),
                ret |-> r.ret, exc |-> r.exc,
                exit |-> InterpreterExit(r.exc, code, r.out, stdout),
                written |-> r.written, saved |-> r.saved, calls |-> r.calls]
    /\ prev' = Summary(last)
    /\ runs' = runs + 1
    /\ UNCHANGED pil

(* python3 fix_icon.py [filename] *)
RunFixIcon(argv, disk, stdout) ==
    /\ runs < MaxRuns
    /\ LET r == convert_to_rgba(fs, filename(argv), pil, disk, stdout)
       IN Finish("fix_icon.py", argv, stdout, "", r, exit_status(r.ret))

(* python3 create_minimal_ico.py: os.chdir to the script's directory, the
   directory modelled here, then create_minimal_ico(); no sys.exit. *)
RunCreateMinimalIco(argv, disk, stdout) ==
    /\ runs < MaxRuns
    /\ LET r == create_minimal_ico(fs, disk, stdout)
       IN Finish("create_minimal_ico.py", argv, stdout, "", r, 0)

(* python3 generate_icons.py: the file does not compile, so no line of it
   runs: nothing is printed on the standard output, read, written or
   started; the traceback goes to the standard error.  The standard output
   and the disk, never used, play no part. *)
RunGenerateIcons(argv, plat) ==
    /\ runs < MaxRuns
    /\ ~Compiles("generate_icons.py")
    /\ Finish("generate_icons.py", argv, Terminal, plat,
              Result(fs, <<>>, "none", "SyntaxError", <<>>, <<>>), 0)

(* create_minimal_ico.py prints one line, of ASCII characters: the encoding
   of the standard output plays no part in its runs. *)
Next ==
    \E argv \in Argvs :
        \/ \E disk \in Disks, stdout \in Stdouts :
               RunFixIcon(argv, disk, stdout)
        \/ \E disk \in Disks, sink \in Sinks :
               RunCreateMinimalIco(argv, disk, [Terminal EXCEPT !.sink = sink])
        \/ \E plat \in Platforms : RunGenerateIcons(argv, plat)

Spec == Init /\ [][Next]_vars

(* ------------------------------------------------------------------ *)
(* Properties                                                           *)
(* ------------------------------------------------------------------ *)
Range(s) == {s[i] : i \in 1..Len(s)}
NoRepeat(s) == \A i, j \in 1..Len(s) : s[i] = s[j] => i = j
Count(s, x) == Cardinality({i \in 1..Len(s) : s[i] = x})

(* The scripts that read an input file, and the file each reads. *)
ReadsInput(script) == script \in {"fix_icon.py", "generate_icons.py"}
InputFile(r) ==
    IF r.script = "fix_icon.py" THEN filename(r.argv) ELSE source_icon
InputMissing(r) == ReadsInput(r.script) /\ ~exists(r.fsBefore, InputFile(r))

(* C1: a run of a script that reads an input file, started when that file
   does not exist, prints an error message, exits with a non-zero code and
   is not ended by an unhandled exception (a SyntaxError of the script
   included). *)
C1_MissingInputHandled ==
    InputMissing(last) =>
        /\ last.out # <<>>
        /\ last.exit # 0
        /\ last.exc = "none"

(* C2: every error condition that occurs in a run (missing input file,
   image library unavailable, subprocess failure) is caught, a message is
   printed, failure is signalled by a False return value or a non-zero exit
   code, and nothing is attempted twice. *)
C2_ErrorsCaughtAndReported ==
    (InputMissing(last) \/ (ReadsInput(last.script) /\ ~pil)) =>
        /\ last.exc = "none"
        /\ last.out # <<>>
        /\ (last.ret = "False" \/ last.exit # 0)
        /\ NoRepeat(last.written) /\ NoRepeat(last.calls)

(* The operation of a run succeeded: the script's function returned True. *)
Succeeded(r) == r.ret = "True"

(* C3, as stated: every script exits 0 exactly when its operation succeeded
   and 1 exactly when it failed, and a filename argument, when given, is
   the file the run processes. *)
C3_ArgumentDeterminesFile ==
    last.script # "none" =>
        /\ last.exit \in {0, 1}
        /\ (last.exit = 0 <=> Succeeded(last))
        /\ (Len(last.argv) > 0 => Range(last.written) \subseteq {last.argv[1]})

(* C3, amended: every script exits 0 exactly when its operation succeeded
   and 1 exactly when it failed, except that the exit code is 120 when what
   the run printed cannot be flushed to the standard output at exit;
   fix_icon.py alone takes a filename argument: it processes the file named
   by its first argument, icon.png when there is none, and no other;
   create_minimal_ico.py and generate_icons.py work on their fixed
   filenames whatever the arguments. *)
C3_ExitCodeAndFixedFiles ==
    last.script # "none" =>
        /\ last.exit \in {0, 1, 120}
        /\ (last.exit = 120 <=> ~last.flushed)
        /\ (last.flushed => (last.exit = 0 <=> Succeeded(last)))
        /\ (last.flushed => (last.exit = 1 <=> ~Succeeded(last)))
        /\ (last.script = "fix_icon.py" =>
               /\ Range(last.written) \subseteq {filename(last.argv)}
               /\ \A f \in Files \ {filename(last.argv)} :
                      fs[f] = last.fsBefore[f])
        /\ (last.script = "create_minimal_ico.py" =>
               /\ Range(last.written) \subseteq {"icon.ico"}
               /\ \A f \in Files \ {"icon.ico"} : fs[f] = last.fsBefore[f])
        /\ (last.script = "generate_icons.py" =>
               /\ Range(last.written) \subseteq generated_files
               /\ \A f \in Files \ generated_files :
                      fs[f] = last.fsBefore[f])

C3_Witness ==
    /\ last.script = "fix_icon.py" /\ last.argv = <<"other.png">>
    /\ last.written = <<"other.png">> /\ last.exit = 0
    /\ prev.script = "create_minimal_ico.py" /\ prev.argv = <<"other.png">>
    /\ prev.ret = "True"
    /\ fs["icon.ico"].type = "raw" /\ fs["icon.ico"].bytes # <<>>

(* Reading an ICO file: little-endian fields at 1-based byte positions. *)
U16(b, p) == b[p] + 256 * b[p + 1]
U32(b, p) == b[p] + 256 * b[p + 1] + 65536 * b[p + 2] + 16777216 * b[p + 3]
Dim(byte) == IF byte = 0 THEN 256 ELSE byte
CeilDiv32(w) == CHOOSE k \in 0..w : 32 * k >= w /\ 32 * (k - 1) < w

(* C4: the file create_minimal_ico wrote to the end has reserved = 0, type = 1,
   count = 1, square dimensions w = h in 1..256, and a directory entry whose
   image size is 40 + w*h*4 + h * 4*ceil(w/32), which is the number of bytes
   that follow the 22 bytes of header and directory entry. *)
C4_IcoLayout ==
    (last.script = "create_minimal_ico.py" /\ last.saved # <<>>) =>
        LET b == fs["icon.ico"].bytes
            w == Dim(b[7])
            h == Dim(b[8])
        IN /\ fs["icon.ico"].type = "raw"
           /\ Len(b) > 22
           /\ U16(b, 1) = 0 /\ U16(b, 3) = 1 /\ U16(b, 5) = 1
           /\ w = h /\ w \in 1..256
           /\ U32(b, 15) = 40 + w * h * 4 + h * 4 * CeilDiv32(w)
           /\ U32(b, 15) = Len(b) - 22
           /\ U32(b, 19) = 22

C4_Witness ==
    /\ last.script = "create_minimal_ico.py"
    /\ last.saved = <<"icon.ico">>
    /\ last.fsBefore["icon.ico"] # fs["icon.ico"]
    /\ Len(fs["icon.ico"].bytes) = 22 + 40 + 16 * 16 * 4 + 16 * 4

(* C5: after a successful run of fix_icon.py the file is an RGBA image, and
   a second run on the same file succeeds and leaves the file as the first
   run left it. *)
C5_Idempotent ==
    /\ (last.script = "fix_icon.py" /\ last.ret = "True") =>
           /\ fs[filename(last.argv)].type = "image"
           /\ fs[filename(last.argv)].mode = "RGBA"
    /\ (/\ prev.script = "fix_icon.py" /\ prev.ret = "True"
        /\ last.script = "fix_icon.py"
        /\ filename(last.argv) = filename(prev.argv)) =>
           /\ last.ret = "True"
           /\ last.written = <<>>
           /\ fs = last.fsBefore

(* C8: in a run of generate_icons.py the three PNG files are written before
   icon.ico and icon.ico before any subprocess is started; off Darwin no
   subprocess is started; on Darwin, with the source icon readable and
   Pillow installed, the Tauri CLI is started exactly
   once, and iconutil at most once and only after the Tauri CLI. *)
C8_GenerateOrder ==
    last.script = "generate_icons.py" =>
        /\ (last.platform # "Darwin" => last.calls = <<>>)
        /\ Count(last.calls, "iconutil") <= 1
        /\ (Count(last.calls, "iconutil") = 1 =>
                last.calls = <<"npx @tauri-apps/cli icon", "iconutil">>)
        /\ (/\ last.platform = "Darwin" /\ pil
            /\ last.fsBefore[source_icon].type = "image") =>
               /\ last.written =
                      <<"32x32.png", "128x128.png", "128x128@2x.png", "icon.ico">>
               /\ Count(last.calls, "npx @tauri-apps/cli icon") = 1

(* C10: a run of fix_icon.py opens no file for writing and changes nothing
   in the directory unless Pillow is installed and the named file is an
   image whose mode is not RGBA; when it writes, it writes the named file
   and no other. *)
C10_WritesOnlyNamedNonRGBA ==
    last.script = "fix_icon.py" =>
        LET f == IF Len(last.argv) > 0 THEN last.argv[1] ELSE "icon.png"
        IN /\ \A g \in Files \ {f} : fs[g] = last.fsBefore[g]
           /\ Range(last.written) \subseteq {f}
           /\ (last.written # <<>> \/ fs # last.fsBefore) =>
                  /\ pil
                  /\ last.fsBefore[f].type = "image"
                  /\ last.fsBefore[f].mode # "RGBA"

C10_Witness ==
    /\ last.script = "fix_icon.py" /\ last.argv = <<"other.png">>
    /\ last.written = <<"other.png">>
    /\ fs["other.png"] # last.fsBefore["other.png"]
    /\ last.fsBefore["icon.png"].type = "image"
    /\ last.fsBefore["icon.png"].mode = "RGB"

====
